---------------------------- MODULE Spec2Model ----------------------------
(***************************************************************************)
(* A model of the practet-dashboard template tags (templatetags/dashub.py) *)
(* and of the settings resolver (settings.py).                             *)
(*                                                                         *)
(* Python values are dynamically typed; where the code's behaviour depends *)
(* on the run-time type of a value, the value is a record tagged with its  *)
(* Python type in the field "type" ("dict", "list", "str", "int").         *)
(* A call either returns a value or raises: an outcome is a record         *)
(* [status |-> "returned", value |-> v] or [status |-> "raised", exc |-> e]*)
(***************************************************************************)
EXTENDS Integers, Sequences, FiniteSets, TLC

VARIABLES
    PRACTET_DASHBOARD_SETTINGS, \* django.conf.settings.PRACTET_DASHBOARD_SETTINGS
    context,                    \* the template context: user and available_apps
    call,                       \* the template tag invoked last, with its arguments
    result                      \* the outcome of that call

vars == <<PRACTET_DASHBOARD_SETTINGS, context, call, result>>

(***************************************************************************)
(* Bounds of the model.                                                    *)
(***************************************************************************)
MaxSubMessages == 2   \* sub-records in one change message
MaxFields == 3        \* field names in one "changed" sub-record
MaxApps == 2          \* applications in the context's available_apps
MaxFieldsets == 2     \* fieldsets of an admin form
MaxInlines == 1       \* inlines of a model admin
MaxHidden == 2        \* names in one hide_apps / hide_models list
MaxPages == 6         \* pages of a paginated change list

(***************************************************************************)
(* Generic helpers.                                                        *)
(***************************************************************************)
Range(s) == {s[i] : i \in 1..Len(s)}

EmptyDict == <<>>

Returned(v) == [status |-> "returned", value |-> v]

Raised(e) == [status |-> "raised", exc |-> e]

PyStr(s) == [type |-> "str", value |-> s]

PyInt(n) == [type |-> "int", value |-> n]

PyList(xs) == [type |-> "list", items |-> xs]

PyDict(d) == [type |-> "dict", items |-> d]

\* Python truthiness of a value: empty containers, "" and 0 are false.
Truthy(v) ==
    CASE v.type = "dict" -> DOMAIN v.items # {}
      [] v.type = "list" -> Len(v.items) > 0
      [] v.type = "str"  -> v.value # ""
      [] v.type = "int"  -> v.value # "0"

(***************************************************************************)
(* The change message of a LogEntry.  The message is a Python string; the  *)
(* model keeps it together with its lexical tokens, so that json.loads is  *)
(* a parser over the tokens and the raw text is their rendering.  A token  *)
(* is [k |-> kind, s |-> text] with kind "punct", "str", "num" or "text"   *)
(* (free text that is no JSON token).                                      *)
(***************************************************************************)
Punct(s) == [k |-> "punct", s |-> s]

LBRACK == Punct("[")

RBRACK == Punct("]")

LBRACE == Punct("{")

RBRACE == Punct("}")

COLON == Punct(":")

COMMA == Punct(",")

StrTok(s) == [k |-> "str", s |-> s]

NumTok(s) == [k |-> "num", s |-> s]

TextTok(s) == [k |-> "text", s |-> s]

\* The characters a token stands for (json.dumps separators ", " and ": ").
TokenText(t) ==
    CASE t.k = "str" -> "\"" \o t.s \o "\""
      [] t = COMMA -> ", "
      [] t = COLON -> ": "
      [] OTHER -> t.s

RECURSIVE Render(_)
Render(toks) ==
    IF toks = <<>> THEN "" ELSE TokenText(Head(toks)) \o Render(Tail(toks))


(***************************************************************************)
(* json.loads on the tokens of a message: a recursive-descent parser.      *)
(* A parse step yields [ok, val, pos]: the value read and the index of the *)
(* next token, or ok = FALSE (json.JSONDecodeError).                       *)
(***************************************************************************)
ParseFail == [ok |-> FALSE, val |-> PyInt("0"), pos |-> 0]

ParseOk(v, p) == [ok |-> TRUE, val |-> v, pos |-> p]

RECURSIVE ParseValue(_, _), ParseElements(_, _, _), ParseMembers(_, _, _)
ParseValue(toks, i) ==
    IF i > Len(toks) THEN ParseFail
    ELSE LET t == toks[i] IN
         CASE t.k = "str" -> ParseOk(PyStr(t.s), i + 1)
           [] t.k = "num" -> ParseOk(PyInt(t.s), i + 1)
           [] t = LBRACK ->
                IF i + 1 <= Len(toks) /\ toks[i + 1] = RBRACK
                THEN ParseOk(PyList(<<>>), i + 2)
                ELSE ParseElements(toks, i + 1, <<>>)
           [] t = LBRACE ->
                IF i + 1 <= Len(toks) /\ toks[i + 1] = RBRACE
                THEN ParseOk(PyDict(EmptyDict), i + 2)
                ELSE ParseMembers(toks, i + 1, EmptyDict)
           [] OTHER -> ParseFail

\* The elements of an array after "[": value ("," value)* "]".
ParseElements(toks, i, acc) ==
    LET r == ParseValue(toks, i) IN
    IF ~r.ok \/ r.pos > Len(toks) THEN ParseFail
    ELSE IF toks[r.pos] = COMMA THEN ParseElements(toks, r.pos + 1, Append(acc, r.val))
    ELSE IF toks[r.pos] = RBRACK THEN ParseOk(PyList(Append(acc, r.val)), r.pos + 1)
    ELSE ParseFail

\* The members of an object after "{": string ":" value ("," ...)* "}".
\* A key given twice keeps its last value, as a Python dict does.
ParseMembers(toks, i, acc) ==
    IF i + 1 > Len(toks) \/ toks[i].k # "str" \/ toks[i + 1] # COLON THEN ParseFail
    ELSE LET r == ParseValue(toks, i + 2) IN
         IF ~r.ok \/ r.pos > Len(toks) THEN ParseFail
         ELSE LET acc2 == (toks[i].s :> r.val) @@ acc IN
              IF toks[r.pos] = COMMA THEN ParseMembers(toks, r.pos + 1, acc2)
              ELSE IF toks[r.pos] = RBRACE THEN ParseOk(PyDict(acc2), r.pos + 1)
              ELSE ParseFail

\* json.loads: the whole text must be one value.
json_loads(toks) ==
    LET r == ParseValue(toks, 1) IN
    IF r.ok /\ r.pos = Len(toks) + 1 THEN Returned(r.val) ELSE Raised("JSONDecodeError")

(***************************************************************************)
(* json.dumps: the tokens of a value.  Django writes change messages with  *)
(* it; the model uses it to draw well-formed messages.                     *)
(***************************************************************************)
RECURSIVE Dumps(_), DumpsItems(_), DumpsMembers(_)
Dumps(v) ==
    CASE v.type = "str"  -> <<StrTok(v.value)>>
      [] v.type = "int"  -> <<NumTok(v.value)>>
      [] v.type = "list" -> <<LBRACK>> \o DumpsItems(v.items) \o <<RBRACK>>
      [] v.type = "dict" -> <<LBRACE>> \o DumpsMembers(v.items) \o <<RBRACE>>

DumpsItems(xs) ==
    IF xs = <<>> THEN <<>>
    ELSE IF Len(xs) = 1 THEN Dumps(xs[1])
    ELSE Dumps(xs[1]) \o <<COMMA>> \o DumpsItems(Tail(xs))

DumpsMembers(d) ==
    IF DOMAIN d = {} THEN <<>>
    ELSE LET k == CHOOSE x \in DOMAIN d : TRUE
             rest == [x \in DOMAIN d \ {k} |-> d[x]]
             one == <<StrTok(k), COLON>> \o Dumps(d[k])
         IN IF DOMAIN rest = {} THEN one ELSE one \o <<COMMA>> \o DumpsMembers(rest)

(***************************************************************************)
(* action_message_to_list and what it calls.                               *)
(***************************************************************************)
\* django.utils.translation.gettext with no translation active: the msgid.
gettext(s) == s

\* U+201C and U+201D of the message templates, written in ASCII here.
LDQUO == "\""

RDQUO == "\""

\* ", ".join(xs)
RECURSIVE JoinComma(_)
JoinComma(xs) ==
    IF xs = <<>> THEN ""
    ELSE IF Len(xs) = 1 THEN xs[1]
    ELSE xs[1] \o ", " \o JoinComma(Tail(xs))

\* get_text_list that joins every name with a comma.
get_text_list_CommaOnly(list_, last_word) == JoinComma(list_)

\* django.utils.text.get_text_list(list_, last_word): "a, b and c".
get_text_list(list_, last_word) ==
    IF Len(list_) = 0 THEN ""
    ELSE IF Len(list_) = 1 THEN list_[1]
    ELSE JoinComma(SubSeq(list_, 1, Len(list_) - 1)) \o " " \o last_word
             \o " " \o list_[Len(list_)]

added(x) == [type |-> "dict", msg |-> x, icon |-> "plus-circle", colour |-> "success"]

changed(x) == [type |-> "dict", msg |-> x, icon |-> "edit", colour |-> "blue"]

deleted(x) == [type |-> "dict", msg |-> x, icon |-> "trash", colour |-> "danger"]

\* `key in v` for a parsed JSON value: a dict tests its keys, a list its
\* elements, and a number is not iterable.
KeyIn(key, v) ==
    CASE v.type = "dict" -> Returned(key \in DOMAIN v.items)
      [] v.type = "list" ->
            Returned(\E i \in 1..Len(v.items) :
                        v.items[i].type = "str" /\ v.items[i].value = key)
      [] OTHER -> Raised("TypeError")

\* v[key] for a string key: only a dict that holds the key answers.
GetItem(v, key) ==
    IF v.type # "dict" THEN Raised("TypeError")
    ELSE IF key \notin DOMAIN v.items THEN Raised("KeyError")
    ELSE Returned(v.items[key])

\* The branch of one sub_message tagged "added".
AddedBranch(sub_message) ==
    LET detail == sub_message.items["added"] IN
    IF ~Truthy(detail) THEN Returned(added(gettext("Added.")))
    ELSE LET name == GetItem(detail, "name")
             object == GetItem(detail, "object")
         IN IF name.status = "raised" THEN name
            ELSE IF object.status = "raised" THEN object
            ELSE Returned(added("Added " \o gettext(name.value.value) \o " " \o LDQUO
                                    \o object.value.value \o RDQUO \o "."))

\* The branch tagged "changed"; with or without a name the text is the same.
\* "fields" is a list of strings in every message drawn here.
ChangedBranch(sub_message) ==
    LET fields == GetItem(sub_message.items["changed"], "fields") IN
    IF fields.status = "raised" THEN fields
    ELSE LET names == [i \in 1..Len(fields.value.items) |->
                            gettext(fields.value.items[i].value)]
         IN Returned(changed("Changed " \o get_text_list(names, gettext("and")) \o "."))

\* The branch tagged "deleted".
DeletedBranch(sub_message) ==
    LET name == GetItem(sub_message.items["deleted"], "name")
        object == GetItem(sub_message.items["deleted"], "object")
    IN IF name.status = "raised" THEN name
       ELSE IF object.status = "raised" THEN object
       ELSE Returned(deleted("Deleted " \o LDQUO \o object.value.value \o RDQUO \o "."))

\* One pass of the loop body: the record to append (Returned), nothing to
\* append (status "skip"), or the exception the body raises.
SubMessageStep(sub_message) ==
    LET a == KeyIn("added", sub_message)
        c == KeyIn("changed", sub_message)
        d == KeyIn("deleted", sub_message)
    IN IF a.status = "raised" THEN a
       ELSE IF a.value
            THEN (IF sub_message.type = "dict" THEN AddedBranch(sub_message)
                  ELSE Raised("TypeError"))
       ELSE IF c.value
            THEN (IF sub_message.type = "dict" THEN ChangedBranch(sub_message)
                  ELSE Raised("TypeError"))
       ELSE IF d.value
            THEN (IF sub_message.type = "dict" THEN DeletedBranch(sub_message)
                  ELSE Raised("TypeError"))
       ELSE [status |-> "skip"]

\* for sub_message in change_message: ... messages.append(...)
RECURSIVE SubMessageLoop(_, _)
SubMessageLoop(change_message, messages) ==
    IF change_message = <<>> THEN Returned(messages)
    ELSE LET r == SubMessageStep(Head(change_message)) IN
         IF r.status = "raised" THEN r
         ELSE SubMessageLoop(Tail(change_message),
                             IF r.status = "skip" THEN messages
                             ELSE Append(messages, r.value))

\* Fallback that hands back the raw text instead of a record.
Fallback_Raw(action) == <<PyStr(action.change_message)>>

\* [changed(gettext(action.change_message))], returned when no record was made.
Fallback(action) == <<changed(gettext(action.change_message))>>

\* action_message_to_list(action), action = [change_message, tokens].
action_message_to_list(action) ==
    LET fallback == Returned(Fallback(action)) IN
    IF action.change_message # "" /\ Head(action.tokens) = LBRACK
    THEN LET change_message == json_loads(action.tokens) IN
         IF change_message.status = "raised"
         THEN Returned(<<PyStr(action.change_message)>>)
         ELSE LET messages == SubMessageLoop(change_message.value.items, <<>>) IN
              IF messages.status = "raised" THEN messages
              ELSE IF Len(messages.value) # 0 THEN messages
              ELSE fallback
    ELSE fallback

(***************************************************************************)
(* The change messages drawn: the JSON arrays of at most MaxSubMessages    *)
(* sub-records of SubMessages as json.dumps writes them, each of them cut  *)
(* short by one token (text that starts with "[" and is no JSON), and free *)
(* text.                                                                   *)
(***************************************************************************)
FieldPool == <<"name", "email", "phone", "city", "zip", "note">>

FieldLists == {[i \in 1..n |-> PyStr(FieldPool[i])] : n \in 0..MaxFields}

NameObject == [name |-> PyStr("user"), object |-> PyStr("alice")]

AddedDetails ==
    {EmptyDict, NameObject, [object |-> PyStr("alice")], [name |-> PyStr("user")]}

ChangedDetails ==
    {[fields |-> PyList(f)] : f \in FieldLists}
        \cup {[fields |-> PyList(<<PyStr("email")>>), name |-> PyStr("user"),
               object |-> PyStr("alice")],
              EmptyDict}

DeletedDetails == {NameObject, [object |-> PyStr("alice")], [name |-> PyStr("user")]}

SubMessages ==
    {PyDict("added" :> PyDict(d)) : d \in AddedDetails}
        \cup {PyDict("changed" :> PyDict(d)) : d \in ChangedDetails}
        \cup {PyDict("deleted" :> PyDict(d)) : d \in DeletedDetails}
        \cup {PyDict(EmptyDict), PyDict("other" :> PyStr("x")), PyInt("1"),
              PyList(<<PyStr("added")>>)}

ChangeMessageArrays ==
    UNION {[1..n -> SubMessages] : n \in 0..MaxSubMessages}

JsonMessages == {Dumps(PyList(a)) : a \in ChangeMessageArrays}

CutMessages == {SubSeq(t, 1, Len(t) - 1) : t \in JsonMessages}

FreeTextMessages == {<<>>, <<TextTok("Free text")>>, <<TextTok("Changed name.")>>}

LogEntries ==
    {[change_message |-> Render(t), tokens |-> t] :
        t \in JsonMessages \cup CutMessages \cup FreeTextMessages}

(***************************************************************************)
(* The audit-log formatter as a state machine: a rendering pass holds one  *)
(* LogEntry and applies the tag to it.                                     *)
(***************************************************************************)
Pending == [status |-> "pending"]

NoSettings == EmptyDict

NoContext == [user |-> FALSE, available_apps |-> <<>>]

InitLog ==
    /\ PRACTET_DASHBOARD_SETTINGS = NoSettings
    /\ context = NoContext
    /\ call \in {[op |-> "action_message_to_list", action |-> a] : a \in LogEntries}
    /\ result = Pending

ActionMessageToList ==
    /\ call.op = "action_message_to_list"
    /\ result = Pending
    /\ result' = action_message_to_list(call.action)
    /\ UNCHANGED <<PRACTET_DASHBOARD_SETTINGS, context, call>>

NextLog == ActionMessageToList

SpecLog == InitLog /\ [][NextLog]_vars

(***************************************************************************)
(* Text that the code lower-cases, splits or slugifies (application        *)
(* labels, model names, "app.model" keys, format ids) is a sequence of     *)
(* one-character strings, so that these conversions are computed.  Text    *)
(* that is only carried along (URLs, template paths, log messages) is a    *)
(* TLA+ string.                                                            *)
(***************************************************************************)
UpperCase ==
    <<"A", "B", "C", "D", "E", "F", "G", "H", "I", "J", "K", "L", "M",
      "N", "O", "P", "Q", "R", "S", "T", "U", "V", "W", "X", "Y", "Z">>

LowerCase ==
    <<"a", "b", "c", "d", "e", "f", "g", "h", "i", "j", "k", "l", "m",
      "n", "o", "p", "q", "r", "s", "t", "u", "v", "w", "x", "y", "z">>

Digits == {"0", "1", "2", "3", "4", "5", "6", "7", "8", "9"}

LowerChar(c) ==
    IF c \in Range(UpperCase)
    THEN LowerCase[CHOOSE i \in 1..Len(UpperCase) : UpperCase[i] = c]
    ELSE c

UpperChar(c) ==
    IF c \in Range(LowerCase)
    THEN UpperCase[CHOOSE i \in 1..Len(LowerCase) : LowerCase[i] = c]
    ELSE c

\* str.lower()
lower(s) == [i \in 1..Len(s) |-> LowerChar(s[i])]

\* str.upper(); the model uses it to draw configuration values.
upper(s) == [i \in 1..Len(s) |-> UpperChar(s[i])]

IsWordChar(c) == c \in Range(LowerCase) \cup Range(UpperCase) \cup Digits \cup {"_"}

\* str.strip("-_")
RECURSIVE StripLeft(_)
StripLeft(s) ==
    IF s # <<>> /\ Head(s) \in {"-", "_"} THEN StripLeft(Tail(s)) ELSE s

RECURSIVE StripRight(_)
StripRight(s) ==
    IF s # <<>> /\ s[Len(s)] \in {"-", "_"}
    THEN StripRight(SubSeq(s, 1, Len(s) - 1))
    ELSE s

\* re.sub(r"[-\s]+", "-", s): each run of hyphens and spaces becomes one "-".
RECURSIVE CollapseHyphens(_)
CollapseHyphens(s) ==
    IF s = <<>> THEN <<>>
    ELSE IF Head(s) \in {"-", " "}
         THEN IF Len(s) > 1 /\ s[2] \in {"-", " "}
              THEN CollapseHyphens(Tail(s))
              ELSE <<"-">> \o CollapseHyphens(Tail(s))
         ELSE <<Head(s)>> \o CollapseHyphens(Tail(s))

\* django.utils.text.slugify on ASCII text: lower-case, drop what is neither
\* a word character, a space nor a hyphen, collapse, strip "-" and "_".
slugify(s) ==
    LET kept == SelectSeq(lower(s), LAMBDA c : IsWordChar(c) \/ c \in {"-", " "})
    IN StripRight(StripLeft(CollapseHyphens(kept)))

\* str.replace("-", "")
RemoveHyphens(s) == SelectSeq(s, LAMBDA c : c # "-")

\* dict.get(key, default) on a dict kept as a function.
DictGet(d, key, default) == IF key \in DOMAIN d THEN d[key] ELSE default

\* d with d[key] = value.
DictSet(d, key, value) == (key :> value) @@ d

(***************************************************************************)
(* settings.py.  A value of PRACTET_DASHBOARD_SETTINGS is tagged with its  *)
(* Python type: PyNone, PyStr(text), PyList(sequence) or PyDict(mapping).  *)
(* custom_links, whose key order the menu follows, is a sequence of        *)
(* [key, links] pairs; the other mappings are functions.  Only the options *)
(* the modelled tags read are kept.                                        *)
(***************************************************************************)
PyNone == [type |-> "NoneType"]

Untag(v) == IF v.type = "str" THEN v.value ELSE v.items

single == <<"s", "i", "n", "g", "l", "e">>

carousel == <<"c", "a", "r", "o", "u", "s", "e", "l">>

collapsible == <<"c", "o", "l", "l", "a", "p", "s", "i", "b", "l", "e">>

horizontal_tabs ==
    <<"h", "o", "r", "i", "z", "o", "n", "t", "a", "l", "_", "t", "a", "b", "s">>

vertical_tabs == <<"v", "e", "r", "t", "i", "c", "a", "l", "_", "t", "a", "b", "s">>

DEFAULT_SETTINGS ==
    [hide_apps |-> PyList(<<>>),
     hide_models |-> PyList(<<>>),
     order_menus |-> PyList(<<>>),
     custom_links |-> PyDict(<<>>),
     changeform_format |-> PyStr(horizontal_tabs),
     changeform_format_overrides |-> PyDict(EmptyDict)]

CHANGEFORM_TEMPLATES ==
    (single :> "practet_dashboard/includes/single.html")
        @@ (carousel :> "practet_dashboard/includes/carousel.html")
        @@ (collapsible :> "practet_dashboard/includes/collapsible.html")
        @@ (horizontal_tabs :> "practet_dashboard/includes/horizontal_tabs.html")
        @@ (vertical_tabs :> "practet_dashboard/includes/vertical_tabs.html")

\* NormaliseHideList without the isinstance test: a string is iterated
\* character by character.
NormaliseHideList_NoWrap(v) ==
    LET as_list == IF v.type = "str"
                   THEN [i \in 1..Len(v.value) |-> <<v.value[i]>>]
                   ELSE v.items
    IN [i \in 1..Len(as_list) |-> lower(as_list[i])]

\* hide_apps / hide_models: a single string becomes a one-element list, and
\* every element is lower-cased.
NormaliseHideList(v) ==
    LET as_list == IF v.type = "str" THEN <<v.value>> ELSE v.items
    IN [i \in 1..Len(as_list) |-> lower(as_list[i])]

\* {x.lower(): y.lower() for x, y in d.items()}
LowerItems(d) ==
    [x \in {lower(k) : k \in DOMAIN d} |->
        lower(d[CHOOSE k \in DOMAIN d : lower(k) = x])]

\* get_settings(): the defaults overlaid with the user's non-None values,
\* then normalised.  The values of the mapping returned are untagged.
get_settings(user) ==
    LET user_settings == [x \in {k \in DOMAIN user : user[k].type # "NoneType"} |-> user[x]]
        practet_settings == user_settings @@ DEFAULT_SETTINGS
    IN [k \in DOMAIN practet_settings |->
            CASE k \in {"hide_apps", "hide_models"} ->
                    NormaliseHideList(practet_settings[k])
              [] k = "changeform_format_overrides" ->
                    LowerItems(practet_settings[k].items)
              [] OTHER -> Untag(practet_settings[k])]

(***************************************************************************)
(* The Django project the tags run in: application labels, model names,    *)
(* the installed applications and the registered models.                   *)
(***************************************************************************)
apps_a == <<"a", "p", "p", "s", "_", "a">>

apps_b == <<"a", "p", "p", "s", "_", "b">>

Shop == <<"S", "h", "o", "p">>

Reports == <<"R", "e", "p", "o", "r", "t", "s">>

Alpha == <<"A", "l", "p", "h", "a">>

Beta == <<"B", "e", "t", "a">>

Gamma == <<"G", "a", "m", "m", "a">>

Item == <<"I", "t", "e", "m">>

Zeta == <<"Z", "e", "t", "a">>

Dot == <<".">>

\* "{app_label}.{name}"
Path(app_label, name) == app_label \o Dot \o name

\* Meta.verbose_name_plural as Django derives it from a model's class name.
verbose_name_plural(object_name) == lower(object_name) \o <<"s">>

\* django.template.defaultfilters.capfirst
capfirst(s) == IF s = <<>> THEN s ELSE <<UpperChar(Head(s))>> \o Tail(s)

\* A model entry of the application list Django's admin site builds.
ModelEntry(app_label, object_name) ==
    [name |-> capfirst(verbose_name_plural(object_name)),
     object_name |-> object_name,
     admin_url |-> <<"/", "a", "d", "m", "i", "n", "/">> \o lower(app_label) \o <<"/">>
                       \o lower(object_name) \o <<"/">>,
     add_url |-> <<"/", "a", "d", "m", "i", "n", "/">> \o lower(app_label) \o <<"/">>
                     \o lower(object_name) \o <<"/", "a", "d", "d", "/">>]

AppEntry(app_label, models) ==
    [name |-> app_label,
     app_label |-> app_label,
     app_url |-> <<"/", "a", "d", "m", "i", "n", "/">> \o lower(app_label) \o <<"/">>,
     has_module_perms |-> TRUE,
     models |-> models]

\* The applications the admin site shows the user; one model entry carries
\* an "order" of its own.
AppA ==
    AppEntry(apps_a, <<ModelEntry(apps_a, Alpha),
                       DictSet(ModelEntry(apps_a, Beta), "order", 1)>>)

AppB == AppEntry(apps_b, <<ModelEntry(apps_b, Gamma)>>)

AppShop == AppEntry(Shop, <<ModelEntry(Shop, Item)>>)

AppPool == {AppA, AppB, AppShop}

\* admin.site.get_app_list(request)
AdminSiteAppList == <<AppA, AppB, AppShop>>

\* The registry behind apps.get_model and reverse: the models that have an
\* admin change list, as <<app_label, lower-cased model name>>.
ModelRegistry ==
    UNION {{<<AdminSiteAppList[i].app_label,
              lower(AdminSiteAppList[i].models[j].object_name)>> :
                j \in 1..Len(AdminSiteAppList[i].models)} :
           i \in 1..Len(AdminSiteAppList)}

\* utils.get_installed_apps(): the labels of the installed applications.
get_installed_apps == [i \in 1..Len(AdminSiteAppList) |-> AdminSiteAppList[i].app_label]

\* str.split(".")
RECURSIVE SplitDot(_)
SplitDot(s) ==
    IF \A i \in 1..Len(s) : s[i] # "."
    THEN <<s>>
    ELSE LET i == CHOOSE j \in 1..Len(s) :
                      s[j] = "." /\ \A k \in 1..(j - 1) : s[k] # "."
         IN <<SubSeq(s, 1, i - 1)>> \o SplitDot(SubSeq(s, i + 1, Len(s)))

\* get_model_info(model_path): the model's plural name and change-list URL,
\* or the path itself and "#" when anything in the lookup raises.
get_model_info(model_path) ==
    LET parts == SplitDot(model_path) IN
    IF Len(parts) = 2 /\ <<parts[1], lower(parts[2])>> \in ModelRegistry
    THEN [name |-> verbose_name_plural(parts[2]),
          url |-> <<"/", "a", "d", "m", "i", "n", "/">> \o parts[1] \o <<"/">>
                      \o lower(parts[2]) \o <<"/">>]
    ELSE [name |-> model_path, url |-> <<"#">>]

(***************************************************************************)
(* Sorting.  sorted() and list.sort() are stable, also with reverse=True:  *)
(* an element's place is the number of elements that sort before it.       *)
(***************************************************************************)
\* items sorted by keys[i], ascending, or descending when reverse.
StableSort(items, keys, reverse) ==
    LET n == Len(items)
        Before(j, i) ==
            \/ IF reverse THEN keys[j] > keys[i] ELSE keys[j] < keys[i]
            \/ keys[j] = keys[i] /\ j < i
        Place(i) == Cardinality({j \in 1..n : Before(j, i)}) + 1
    IN [r \in 1..n |-> items[CHOOSE i \in 1..n : Place(i) = r]]

\* key=lambda x: x.get("order", 0)
OrderKeys(items) == [i \in 1..Len(items) |-> DictGet(items[i], "order", 0)]

(***************************************************************************)
(* utils.make_menu(user, links, options, allow_appmenus=False) for a group *)
(* of custom links: the links whose permissions the user holds, in the     *)
(* order configured; a link that names an application is left out, since   *)
(* application menus are not allowed here.                                 *)
(***************************************************************************)
LinkVisible(user, link) ==
    /\ "app" \notin DOMAIN link
    /\ \A i \in 1..Len(DictGet(link, "permissions", <<>>)) :
            link.permissions[i] \in user.perms

LinkRecord(link) ==
    [k \in DOMAIN link \cap {"name", "url", "order"} |-> link[k]]

make_menu(user, links) ==
    LET shown == SelectSeq(links, LAMBDA link : LinkVisible(user, link))
    IN [i \in 1..Len(shown) |-> LinkRecord(shown[i])]

(***************************************************************************)
(* get_side_menu.  The loops thread the one object they mutate that        *)
(* outlives the call: options["model_submenus"], which get_settings takes  *)
(* over from PRACTET_DASHBOARD_SETTINGS without copying it.  A loop yields *)
(* [exc, ..., model_submenus]; exc is "none" or the exception raised.      *)
(***************************************************************************)
AddNew == <<"A", "d", "d", " ", "N", "e", "w">>

\* The placeholder applications appended for custom_links groups whose
\* lower-cased label is not installed.  A group is a list of links, so
\* `"order" in links` is false and the order is the configured default.
CustomApps(custom_links, installed_apps, default_orders) ==
    LET missing == SelectSeq(custom_links,
                             LAMBDA g : lower(g.key) \notin Range(installed_apps))
    IN [i \in 1..Len(missing) |->
            [name |-> missing[i].key,
             app_label |-> missing[i].key,
             app_url |-> <<"#">>,
             has_module_perms |-> TRUE,
             models |-> <<>>,
             order |-> DictGet(default_orders, missing[i].key, 0)]]

\* custom_links.get(app_label, []) on the menus made of the groups.
CustomLinksOf(user, custom_links, app_label) ==
    IF \E i \in 1..Len(custom_links) : custom_links[i].key = app_label
    THEN make_menu(user, custom_links[CHOOSE i \in 1..Len(custom_links) :
                                          custom_links[i].key = app_label].links)
    ELSE <<>>

\* The body of the loop over model_submenus[model_str]: an entry that names
\* a model is filled in, in place, from get_model_info.
ResolveSubmenuItem(submenu_item, default_orders) ==
    IF "model" \in DOMAIN submenu_item
    THEN LET model_info == get_model_info(submenu_item.model)
             submenu_str == RemoveHyphens(slugify(model_info.name))
         IN [k \in DOMAIN submenu_item \cup {"name", "submenu_str", "url", "order"} |->
                CASE k = "name" -> model_info.name
                  [] k = "submenu_str" -> submenu_str
                  [] k = "url" -> model_info.url
                  [] k = "order" ->
                        IF "order" \in DOMAIN submenu_item THEN submenu_item.order
                        ELSE DictGet(default_orders, submenu_str, 0)
                  [] OTHER -> submenu_item[k]]
    ELSE submenu_item

\* ModelStr without the lower-casing.
ModelStr_NoLower(app_label, model) == Path(app_label, model.object_name)

\* model_str = f"{app_label}.{model['object_name']}".lower()
ModelStr(app_label, model) == lower(Path(app_label, model.object_name))

\* KeepApp without the test: every application is kept.
KeepApp_Always(menu_items) == TRUE

\* if menu_items: the application is kept when it has an item to show.
KeepApp(menu_items) == menu_items # <<>>

\* if app_label in hidden_apps
AppHidden(app_label, hidden_apps) == app_label \in hidden_apps

\* The submenu of a model listed in submenus_models: "Add New", the model
\* and the resolved entries, by "order", descending; the resolved entries
\* replace the configured ones in model_submenus.
WithSubmenu(model, model1, model_str, resolved, model_submenus) ==
    LET submenus1 == IF model_str \in DOMAIN model_submenus
                     THEN DictSet(model_submenus, model_str, resolved)
                     ELSE model_submenus
        submenu == <<[name |-> AddNew, url |-> model.add_url, order |-> 0],
                     [name |-> model.name, url |-> model1.url, order |-> 0]>>
                       \o resolved
    IN IF \E i \in 1..Len(submenu) : "order" \notin DOMAIN submenu[i]
       THEN [exc |-> "KeyError", skip |-> FALSE, model |-> model1,
             model_submenus |-> submenus1]
       ELSE [exc |-> "none", skip |-> FALSE,
             model |-> DictSet(model1, "submenu",
                           StableSort(submenu,
                               [i \in 1..Len(submenu) |-> submenu[i].order],
                               TRUE)),
             model_submenus |-> submenus1]

\* The body of the loop over an application's models, for the model whose
\* path is model_str.
ModelBody(model, model_str, o, model_submenus) ==
    IF model_str \in o.hidden_models
    THEN [exc |-> "none", skip |-> TRUE, model |-> model,
          model_submenus |-> model_submenus]
    ELSE LET model1 ==
                 [k \in DOMAIN model \cup {"url", "model_str", "order"} |->
                    CASE k = "url" -> model.admin_url
                      [] k = "model_str" -> model_str
                      [] k = "order" ->
                            DictGet(model, "order", DictGet(o.default_orders, model_str, 0))
                      [] OTHER -> model[k]]
             configured == DictGet(model_submenus, model_str, <<>>)
         IN IF model_str \notin o.submenus_models
            THEN [exc |-> "none", skip |-> FALSE, model |-> model1,
                  model_submenus |-> model_submenus]
            ELSE WithSubmenu(model, model1, model_str,
                             [i \in 1..Len(configured) |->
                                 ResolveSubmenuItem(configured[i], o.default_orders)],
                             model_submenus)

\* One model of an application: [exc, skip, model, model_submenus].
ModelStep(model, app_label, o, model_submenus) ==
    ModelBody(model, ModelStr(app_label, model), o, model_submenus)

\* for model in app.get("models", []): [exc, menu_items, model_submenus].
RECURSIVE ModelsLoop(_, _, _, _, _)
ModelsLoop(models, app_label, o, model_submenus, menu_items) ==
    LET Continue(r) ==
            IF r.exc # "none"
            THEN [exc |-> r.exc, menu_items |-> menu_items,
                  model_submenus |-> r.model_submenus]
            ELSE ModelsLoop(Tail(models), app_label, o, r.model_submenus,
                            IF r.skip THEN menu_items ELSE Append(menu_items, r.model))
    IN IF models = <<>>
       THEN [exc |-> "none", menu_items |-> menu_items,
             model_submenus |-> model_submenus]
       ELSE Continue(ModelStep(Head(models), app_label, o, model_submenus))

\* The end of the loop over the applications: the custom links follow the
\* models, and the application is kept when it has an item to show.
AppWithItems(app1, r, menu_items) ==
    LET none == [exc |-> "none", skip |-> TRUE, app |-> app1,
                 model_submenus |-> r.model_submenus]
    IN IF r.exc # "none" THEN [none EXCEPT !.exc = r.exc]
       ELSE IF ~KeepApp(menu_items) THEN none
       ELSE [exc |-> "none", skip |-> FALSE,
             app |-> DictSet(app1, "models",
                             StableSort(menu_items, OrderKeys(menu_items), FALSE)),
             model_submenus |-> r.model_submenus]

\* One application: [exc, skip, app, model_submenus].  order_menus is a
\* list, and a list cannot be indexed by a label.
AppStep(app, o, model_submenus) ==
    LET app_label == app.app_label
        none == [exc |-> "none", skip |-> TRUE, app |-> app,
                 model_submenus |-> model_submenus]
        app1 == DictSet(app, "order", DictGet(o.default_orders, app_label, 0))
        WithModels(r) ==
            AppWithItems(app1, r,
                         r.menu_items \o CustomLinksOf(o.user, o.custom_links, app_label))
    IN IF AppHidden(app_label, o.hidden_apps) THEN none
       ELSE IF app_label \in Range(o.order_menus)
            THEN [none EXCEPT !.exc = "TypeError"]
       ELSE WithModels(ModelsLoop(DictGet(app1, "models", <<>>), app_label, o,
                                  model_submenus, <<>>))

\* for app in available_apps: [exc, menu, model_submenus].
RECURSIVE AppsLoop(_, _, _, _)
AppsLoop(available_apps, o, model_submenus, menu) ==
    LET Continue(r) ==
            IF r.exc # "none"
            THEN [exc |-> r.exc, menu |-> menu, model_submenus |-> r.model_submenus]
            ELSE AppsLoop(Tail(available_apps), o, r.model_submenus,
                          IF r.skip THEN menu ELSE Append(menu, r.app))
    IN IF available_apps = <<>>
       THEN [exc |-> "none", menu |-> menu, model_submenus |-> model_submenus]
       ELSE Continue(AppStep(Head(available_apps), o, model_submenus))

\* order_map = {label.lower(): index for index, label in enumerate(order_menus)}:
\* a label listed twice keeps its last index.
OrderMap(order_menus) ==
    [x \in {lower(order_menus[i]) : i \in 1..Len(order_menus)} |->
        (CHOOSE i \in 1..Len(order_menus) :
            /\ lower(order_menus[i]) = x
            /\ \A j \in (i + 1)..Len(order_menus) : lower(order_menus[j]) # x) - 1]

\* get_order_index(item)
get_order_index(order_map, item) ==
    DictGet(order_map, lower(item.app_label), DictGet(item, "order", 0))

\* sort_models that sorts ascending and reverses the list, which turns
\* the items of equal order around.
sort_models_Reversed(models) ==
    LET sorted_submenus ==
            [i \in 1..Len(models) |->
                IF "submenu" \in DOMAIN models[i]
                THEN DictSet(models[i], "submenu",
                             StableSort(models[i].submenu,
                                        OrderKeys(models[i].submenu), TRUE))
                ELSE models[i]]
        ascending == StableSort(sorted_submenus, OrderKeys(sorted_submenus), FALSE)
    IN [i \in 1..Len(ascending) |-> ascending[Len(ascending) + 1 - i]]

\* sort_models(models): every submenu and then the models, by "order",
\* descending.
sort_models(models) ==
    LET sorted_submenus ==
            [i \in 1..Len(models) |->
                IF "submenu" \in DOMAIN models[i]
                THEN DictSet(models[i], "submenu",
                             StableSort(models[i].submenu,
                                        OrderKeys(models[i].submenu), TRUE))
                ELSE models[i]]
    IN StableSort(sorted_submenus, OrderKeys(sorted_submenus), TRUE)

\* order_menus_with_order(menu, order_menus)
order_menus_with_order(menu, order_menus) ==
    LET order_map == OrderMap(order_menus)
        sorted_apps ==
            [i \in 1..Len(menu) |->
                IF "models" \in DOMAIN menu[i]
                THEN DictSet(menu[i], "models", sort_models(menu[i].models))
                ELSE menu[i]]
    IN StableSort(sorted_apps,
                  [i \in 1..Len(sorted_apps) |-> get_order_index(order_map, sorted_apps[i])],
                  TRUE)

\* The application list of the context, or the admin site's when the
\* context has none, followed by the placeholder applications.
AvailableApps(ctx, custom_links, default_orders) ==
    (IF ctx.available_apps = <<>> THEN AdminSiteAppList ELSE ctx.available_apps)
        \o CustomApps(custom_links, get_installed_apps, default_orders)

\* The options the loops read.
MenuOptions(user, options, default_orders) ==
    [user |-> user,
     default_orders |-> default_orders,
     custom_links |-> options.custom_links,
     submenus_models |-> Range(DictGet(options, "submenus_models", <<>>)),
     hidden_apps |-> Range(options.hide_apps),
     hidden_models |-> Range(options.hide_models),
     order_menus |-> options.order_menus]

\* return order_menus_with_order(menu, options.get("order_menus", [])),
\* unless the loops raised.
SideMenuResult(r, order_menus) ==
    IF r.exc # "none"
    THEN [outcome |-> Raised(r.exc), model_submenus |-> r.model_submenus]
    ELSE [outcome |-> Returned(order_menus_with_order(r.menu, order_menus)),
          model_submenus |-> r.model_submenus]

\* get_side_menu once the options are read.
SideMenuOf(ctx, options, default_orders, model_submenus) ==
    IF ~ctx.user.present
    THEN [outcome |-> Returned(<<>>), model_submenus |-> model_submenus]
    ELSE SideMenuResult(
            AppsLoop(AvailableApps(ctx, options.custom_links, default_orders),
                     MenuOptions(ctx.user, options, default_orders),
                     model_submenus, <<>>),
            options.order_menus)

\* get_side_menu(context): [outcome, model_submenus], the value returned or
\* the exception raised, and the user's model_submenus as the call leaves it.
get_side_menu(ctx, user_config) ==
    LET WithOptions(options) ==
            SideMenuOf(ctx, options,
                       DictGet(options, "default_orders", EmptyDict),
                       DictGet(options, "model_submenus", EmptyDict))
    IN WithOptions(get_settings(user_config))

(***************************************************************************)
(* The configurations and contexts the side menu is built from.            *)
(***************************************************************************)
HideAppsChoices ==
    {PyNone, PyStr(apps_a), PyList(<<Shop>>), PyList(<<upper(apps_b), lower(Reports)>>)}

HideModelsChoices ==
    {PyNone,
     PyStr(Path(apps_a, Alpha)),
     PyList(<<upper(Path(apps_a, Beta)), Path(Shop, Item), Path(apps_b, Gamma)>>)}

OrderMenusChoices ==
    {PyList(<<>>),
     PyList(<<apps_b, apps_a>>),
     PyList(<<upper(apps_b), upper(apps_a), lower(Shop)>>)}

Docs == <<"D", "o", "c", "s">>

DocsUrl == <<"/", "d", "o", "c", "s", "/">>

CustomLinksChoices ==
    {PyDict(<<>>),
     PyDict(<<[key |-> Reports,
               links |-> <<[name |-> Docs, url |-> DocsUrl],
                           [name |-> Reports, url |-> <<"/", "r", "/">>, order |-> 2,
                            permissions |-> <<"reports.view">>]>>],
              [key |-> apps_a,
               links |-> <<[name |-> Docs, url |-> DocsUrl, order |-> 5]>>]>>),
     PyDict(<<[key |-> Reports,
               links |-> <<[name |-> Reports, url |-> <<"/", "r", "/">>,
                            permissions |-> <<"reports.audit">>]>>],
              [key |-> Shop,
               links |-> <<[name |-> Docs, url |-> DocsUrl]>>]>>)}

\* submenus_models with model_submenus: none; entries that name models, one
\* of them unknown; a literal entry that carries no order.
SubmenuChoices ==
    {[submenus_models |-> PyNone, model_submenus |-> PyNone],
     [submenus_models |-> PyList(<<lower(Path(apps_a, Alpha))>>),
      model_submenus |->
          PyDict(lower(Path(apps_a, Alpha)) :>
                    <<[model |-> Path(apps_b, Gamma), order |-> 3],
                      [model |-> Path(apps_a, Zeta)],
                      [name |-> Docs, url |-> DocsUrl, order |-> 1]>>)],
     [submenus_models |-> PyList(<<lower(Path(apps_a, Alpha)), lower(Path(Shop, Item))>>),
      model_submenus |->
          PyDict(lower(Path(Shop, Item)) :>
                    <<[name |-> Docs, url |-> DocsUrl]>>)]}

DefaultOrdersChoices ==
    {PyNone,
     PyDict((apps_a :> 2) @@ (lower(Path(Shop, Item)) :> 3)
                @@ (RemoveHyphens(slugify(Path(apps_a, Zeta))) :> 4)),
     PyDict(lower(Path(apps_a, Alpha)) :> 1)}

MenuSettings ==
    {[hide_apps |-> ha, hide_models |-> hm, order_menus |-> om, custom_links |-> cl,
      submenus_models |-> sm.submenus_models, model_submenus |-> sm.model_submenus,
      default_orders |-> do] :
        ha \in HideAppsChoices, hm \in HideModelsChoices, om \in OrderMenusChoices,
        cl \in CustomLinksChoices, sm \in SubmenuChoices, do \in DefaultOrdersChoices}

\* The lists of at most MaxApps different applications.
AppLists ==
    {l \in UNION {[1..n -> AppPool] : n \in 0..MaxApps} :
        \A i, j \in 1..Len(l) : i # j => l[i] # l[j]}

Staff == [present |-> TRUE, perms |-> {"reports.view"}]

NoUser == [present |-> FALSE, perms |-> {}]

MenuContexts ==
    {[user |-> Staff, available_apps |-> l] : l \in AppLists}
        \cup {[user |-> NoUser, available_apps |-> <<AppA, AppB>>]}

(***************************************************************************)
(* The side menu as a state machine: the tag may be rendered any number of *)
(* times against the same settings and context.                            *)
(***************************************************************************)
InitMenu ==
    /\ PRACTET_DASHBOARD_SETTINGS \in MenuSettings
    /\ context \in MenuContexts
    /\ call = [op |-> "get_side_menu"]
    /\ result = Pending

GetSideMenu ==
    /\ call.op = "get_side_menu"
    /\ \E r \in {get_side_menu(context, PRACTET_DASHBOARD_SETTINGS)} :
        /\ result' = r.outcome
        /\ PRACTET_DASHBOARD_SETTINGS' =
                IF PRACTET_DASHBOARD_SETTINGS.model_submenus.type = "dict"
                THEN [PRACTET_DASHBOARD_SETTINGS EXCEPT
                        !.model_submenus = PyDict(r.model_submenus)]
                ELSE PRACTET_DASHBOARD_SETTINGS
    /\ UNCHANGED <<context, call>>

NextMenu == GetSideMenu

SpecMenu == InitMenu /\ [][NextMenu]_vars

(***************************************************************************)
(* The change-form template selector.  An AdminForm is                     *)
(* [fieldsets, inlines, app_label, model_name]: the names of the form's    *)
(* fieldsets, the inline classes of its model admin and the _meta of its   *)
(* model.                                                                  *)
(***************************************************************************)
\* utils.has_fieldsets_check(adminform): whether the form has fieldsets.
has_fieldsets_check(adminform) == Len(adminform.fieldsets) > 0

\* "{}.{}".format(model._meta.app_label, model._meta.model_name).lower()
FormModelName(adminform) == lower(Path(adminform.app_label, adminform.model_name))

\* ResolvedFormat that never consults the overrides.
ResolvedFormat_GlobalOnly(options, adminform) ==
    DictGet(options, "changeform_format", <<>>)

\* The format id the tags resolve: the override of the model, else the
\* global changeform_format.
ResolvedFormat(options, adminform) ==
    LET model_name == FormModelName(adminform)
        overrides == DictGet(options, "changeform_format_overrides", EmptyDict)
    IN IF model_name \in DOMAIN overrides
       THEN overrides[model_name]
       ELSE DictGet(options, "changeform_format", <<>>)

\* get_changeform_template that looks at the format before the fieldsets.
get_changeform_template_FormatFirst(user_config, adminform) ==
    LET options == get_settings(user_config)
        has_fieldsets == has_fieldsets_check(adminform)
        has_inlines == Len(adminform.inlines) > 0
        changeform_format == ResolvedFormat(options, adminform)
    IN IF changeform_format = <<>> \/ changeform_format \notin DOMAIN CHANGEFORM_TEMPLATES
       THEN CHANGEFORM_TEMPLATES[horizontal_tabs]
       ELSE IF ~has_fieldsets /\ ~has_inlines
            THEN CHANGEFORM_TEMPLATES[single]
       ELSE CHANGEFORM_TEMPLATES[changeform_format]

get_changeform_template(user_config, adminform) ==
    LET options == get_settings(user_config)
        has_fieldsets == has_fieldsets_check(adminform)
        has_inlines == Len(adminform.inlines) > 0
        changeform_format == ResolvedFormat(options, adminform)
    IN IF ~has_fieldsets /\ ~has_inlines
       THEN CHANGEFORM_TEMPLATES[single]
       ELSE IF changeform_format = <<>> \/ changeform_format \notin DOMAIN CHANGEFORM_TEMPLATES
            THEN CHANGEFORM_TEMPLATES[horizontal_tabs]
       ELSE CHANGEFORM_TEMPLATES[changeform_format]

get_changeform_template_class(user_config, adminform) ==
    LET options == get_settings(user_config)
        has_fieldsets == has_fieldsets_check(adminform)
        has_inlines == Len(adminform.inlines) > 0
        changeform_format == ResolvedFormat(options, adminform)
    IN IF ~has_fieldsets /\ ~has_inlines
       THEN single
       ELSE IF changeform_format = <<>> \/ changeform_format \notin DOMAIN CHANGEFORM_TEMPLATES
            THEN horizontal_tabs
       ELSE changeform_format

(***************************************************************************)
(* The settings and admin forms the selector is applied to.                *)
(***************************************************************************)
grid == <<"g", "r", "i", "d">>

ChangeformFormatChoices ==
    {PyNone, PyStr(single), PyStr(vertical_tabs), PyStr(carousel),
     PyStr(upper(collapsible)), PyStr(<<>>), PyStr(grid)}

ChangeformOverridesChoices ==
    {PyNone,
     PyDict(lower(Path(apps_a, Alpha)) :> carousel),
     PyDict(Path(apps_a, Alpha) :> upper(vertical_tabs)),
     PyDict(lower(Path(apps_a, Alpha)) :> grid),
     PyDict((lower(Path(apps_b, Gamma)) :> collapsible)
                @@ (lower(Path(Shop, Item)) :> single))}

FormSettings ==
    {[changeform_format |-> f, changeform_format_overrides |-> o] :
        f \in ChangeformFormatChoices, o \in ChangeformOverridesChoices}

FieldsetPool == <<"General", "Advanced", "Extra", "Audit">>

InlinePool == <<"NoteInline", "TagInline", "FileInline">>

AdminForms ==
    {[fieldsets |-> SubSeq(FieldsetPool, 1, nf),
      inlines |-> SubSeq(InlinePool, 1, ni),
      app_label |-> m[1],
      model_name |-> lower(m[2])] :
        nf \in 0..MaxFieldsets, ni \in 0..MaxInlines,
        m \in {<<apps_a, Alpha>>, <<apps_b, Gamma>>, <<Shop, Item>>}}

InitForm ==
    /\ PRACTET_DASHBOARD_SETTINGS \in FormSettings
    /\ context = NoContext
    /\ call \in {[op |-> t, adminform |-> a] :
                    t \in {"get_changeform_template", "get_changeform_template_class"},
                    a \in AdminForms}
    /\ result = Pending

GetChangeformTemplate ==
    /\ call.op = "get_changeform_template"
    /\ result = Pending
    /\ result' = Returned(get_changeform_template(PRACTET_DASHBOARD_SETTINGS,
                                                  call.adminform))
    /\ UNCHANGED <<PRACTET_DASHBOARD_SETTINGS, context, call>>

GetChangeformTemplateClass ==
    /\ call.op = "get_changeform_template_class"
    /\ result = Pending
    /\ result' = Returned(get_changeform_template_class(PRACTET_DASHBOARD_SETTINGS,
                                                        call.adminform))
    /\ UNCHANGED <<PRACTET_DASHBOARD_SETTINGS, context, call>>

NextForm == GetChangeformTemplate \/ GetChangeformTemplateClass

SpecForm == InitForm /\ [][NextForm]_vars

(***************************************************************************)
(* get_settings as a state machine: the settings are resolved from the     *)
(* user's PRACTET_DASHBOARD_SETTINGS.                                      *)
(***************************************************************************)
HideNamePool == <<Shop, upper(apps_b), Path(apps_a, Alpha)>>

\* The lists of at most MaxHidden names.
HideLists == UNION {[1..n -> Range(HideNamePool)] : n \in 0..MaxHidden}

HideValues ==
    {PyNone} \cup {PyStr(x) : x \in Range(HideNamePool)}
             \cup {PyList(l) : l \in HideLists}

UserSettings == {[hide_apps |-> ha, hide_models |-> hm] : ha, hm \in HideValues}

InitSettings ==
    /\ PRACTET_DASHBOARD_SETTINGS \in UserSettings
    /\ context = NoContext
    /\ call = [op |-> "get_settings"]
    /\ result = Pending

GetSettings ==
    /\ call.op = "get_settings"
    /\ result = Pending
    /\ result' = Returned(get_settings(PRACTET_DASHBOARD_SETTINGS))
    /\ UNCHANGED <<PRACTET_DASHBOARD_SETTINGS, context, call>>

NextSettings == GetSettings

SpecSettings == InitSettings /\ [][NextSettings]_vars

(***************************************************************************)
(* dashub_paginator_number.  The markup returned is kept as the sequence   *)
(* of the <li> fragments appended to html_str, each with the values its    *)
(* template is formatted with.  A slot i is PyInt(page) or Spacer(text).    *)
(***************************************************************************)
\* The spacer Django's paginator yields, U+2026, written in ASCII.
ELLIPSIS == "..."

DOT == "."

\* A slot that is a string; its text is kept apart from a page number.
Spacer(s) == [type |-> "str", text |-> s]

\* change_list.get_query_string({PAGE_VAR: page})
get_query_string(change_list, page) == "?p=" \o ToString(page)

\* The link of the Previous control.
PreviousLink(change_list) ==
    IF change_list.page_num > 1
    THEN get_query_string(change_list, change_list.page_num - 1)
    ELSE "#"

\* NextLink that never yields "#".
NextLink_Always(change_list, i) ==
    get_query_string(change_list, change_list.page_num + 1)

\* The link of the Next control; it is computed on the last slot only,
\* where i is a page number.
NextLink(change_list, i) ==
    IF change_list.page_num < i.value
    THEN get_query_string(change_list, change_list.page_num + 1)
    ELSE "#"

\* <li class="page-item previous {disabled}"> / <li class="page-item next {disabled}">
ControlFragment(kind, link) ==
    [li |-> kind, href |-> link, disabled |-> IF link = "#" THEN "disabled" ELSE ""]

dashub_paginator_number(change_list, i) ==
    LET start == i.type = "int" /\ i.value = 1
        end == i.type = "int" /\ i.value = change_list.paginator.num_pages
        spacer == i.type = "str" /\ i.text \in {DOT, ELLIPSIS}
        current_page == i.type = "int" /\ i.value = change_list.page_num
        \* end = "end" if end else "", assigned in the last branch only
        end_class == IF end THEN "end" ELSE ""
        end_after == IF ~current_page /\ ~spacer THEN end_class # "" ELSE end
        previous == IF start
                    THEN <<ControlFragment("previous", PreviousLink(change_list))>>
                    ELSE <<>>
        entry == IF current_page
                 THEN <<[li |-> "active", num |-> i.value]>>
                 ELSE IF spacer
                      THEN <<[li |-> "ellipsis"]>>
                 ELSE <<[li |-> "page", num |-> i.value,
                         href |-> get_query_string(change_list, i.value),
                         class |-> end_class]>>
        next == IF end_after
                THEN <<ControlFragment("next", NextLink(change_list, i))>>
                ELSE <<>>
    IN previous \o entry \o next

\* The change lists of at most MaxPages pages, on any of their pages.
ChangeLists ==
    UNION {{[paginator |-> [num_pages |-> n], page_num |-> p] : p \in 1..n} :
           n \in 1..MaxPages}

\* The slots of a pager: the page numbers and the two spacers.
Slots(change_list) ==
    {PyInt(k) : k \in 1..change_list.paginator.num_pages}
        \cup {Spacer(DOT), Spacer(ELLIPSIS)}

InitPager ==
    /\ PRACTET_DASHBOARD_SETTINGS = NoSettings
    /\ context = NoContext
    /\ call \in UNION {{[op |-> "dashub_paginator_number", change_list |-> cl, i |-> i] :
                            i \in Slots(cl)} :
                       cl \in ChangeLists}
    /\ result = Pending

DashubPaginatorNumber ==
    /\ call.op = "dashub_paginator_number"
    /\ result = Pending
    /\ result' = Returned(dashub_paginator_number(call.change_list, call.i))
    /\ UNCHANGED <<PRACTET_DASHBOARD_SETTINGS, context, call>>

NextPager == DashubPaginatorNumber

SpecPager == InitPager /\ [][NextPager]_vars

(***************************************************************************)
(* Properties of the side menu, checked under SpecMenu.                    *)
(***************************************************************************)
MenuReturned == call.op = "get_side_menu" /\ result.status = "returned"

\* The entries of hide_apps / hide_models as configured, lower-cased.
ConfiguredHidden(key) ==
    LET v == PRACTET_DASHBOARD_SETTINGS[key] IN
    IF v.type = "NoneType" THEN {}
    ELSE IF v.type = "str" THEN {lower(v.value)}
    ELSE {lower(v.items[i]) : i \in 1..Len(v.items)}

MenuLabels == {result.value[i].app_label : i \in 1..Len(result.value)}

\* The applications get_side_menu starts from.
InputApps ==
    IF context.available_apps = <<>> THEN Range(AdminSiteAppList)
    ELSE Range(context.available_apps)

\* C1: no application of the returned menu has a label that, lower-cased,
\* is an entry of the configured hide_apps.
C1_HiddenAppsAbsent ==
    MenuReturned =>
        \A i \in 1..Len(result.value) :
            lower(result.value[i].app_label) \notin ConfiguredHidden("hide_apps")

\* C2: with order_menus = ["apps_b", "apps_a"] and no other ordering, the
\* menu built from apps_a and apps_b is returned with apps_b before apps_a.
C2_OrderMenusOrder ==
    (/\ call.op = "get_side_menu"
     /\ result # Pending
     /\ context.user.present
     /\ PRACTET_DASHBOARD_SETTINGS.order_menus = PyList(<<apps_b, apps_a>>)
     /\ PRACTET_DASHBOARD_SETTINGS.default_orders = PyNone
     /\ PRACTET_DASHBOARD_SETTINGS.hide_apps = PyNone
     /\ PRACTET_DASHBOARD_SETTINGS.hide_models = PyNone
     /\ {AppA, AppB} \subseteq InputApps)
        => /\ result.status = "returned"
           /\ \E i, j \in 1..Len(result.value) :
                /\ i < j
                /\ result.value[i].app_label = apps_b
                /\ result.value[j].app_label = apps_a

\* C3: get_side_menu returns a menu, whatever the configuration: it never
\* raises.
C3_SideMenuNeverRaises ==
    (call.op = "get_side_menu" /\ result # Pending) => result.status = "returned"

\* C4: no application of the returned menu holds a model whose lower-cased
\* "app_label.object_name" is an entry of the configured hide_models.
C4_HiddenModelsAbsent ==
    MenuReturned =>
        \A i \in 1..Len(result.value) :
            \A j \in 1..Len(result.value[i].models) :
                LET app == result.value[i]
                    item == app.models[j]
                IN "object_name" \in DOMAIN item =>
                      lower(Path(app.app_label, item.object_name))
                          \notin ConfiguredHidden("hide_models")

\* A menu is returned from which a hidden model, configured in upper case,
\* is missing while another model of its application is shown.
C4_Witness ==
    /\ MenuReturned
    /\ PRACTET_DASHBOARD_SETTINGS.hide_models.type = "list"
    /\ upper(Path(apps_a, Beta)) \in Range(PRACTET_DASHBOARD_SETTINGS.hide_models.items)
    /\ AppA \in InputApps
    /\ \E i \in 1..Len(result.value) :
        /\ result.value[i].app_label = apps_a
        /\ \E j \in 1..Len(result.value[i].models) :
              DictGet(result.value[i].models[j], "object_name", <<>>) = Alpha

\* C5: every application of the returned menu has at least one item.
C5_NoEmptyApplication ==
    MenuReturned => \A i \in 1..Len(result.value) : Len(result.value[i].models) > 0

\* A menu is returned that leaves out an application whose only model is
\* hidden and a custom-links group none of whose links the user may see.
C5_Witness ==
    /\ MenuReturned
    /\ Len(result.value) > 0
    /\ AppB \in InputApps
    /\ lower(Path(apps_b, Gamma)) \in ConfiguredHidden("hide_models")
    /\ apps_b \notin MenuLabels
    /\ PRACTET_DASHBOARD_SETTINGS.custom_links.items # <<>>
    /\ PRACTET_DASHBOARD_SETTINGS.custom_links.items[1].key = Reports
    /\ Reports \notin MenuLabels

\* C13: a call of get_side_menu changes neither the global configuration,
\* the entries of model_submenus and custom_links included, nor the
\* template context, so the settings resolved after the call are the
\* settings resolved before it.
C13_NoSharedStateEffect ==
    [][/\ PRACTET_DASHBOARD_SETTINGS' = PRACTET_DASHBOARD_SETTINGS
       /\ context' = context
       /\ get_settings(PRACTET_DASHBOARD_SETTINGS')
            = get_settings(PRACTET_DASHBOARD_SETTINGS)]_vars

\* x.get("order", 0)
OrderOf(x) == IF "order" \in DOMAIN x THEN x.order ELSE 0

NonIncreasing(items) ==
    \A i, j \in 1..Len(items) : i < j => OrderOf(items[i]) >= OrderOf(items[j])

\* The models of the input application labelled app_label, in input order;
\* a placeholder application has none.
InputModels(app_label) ==
    IF \E a \in InputApps : a.app_label = app_label
    THEN (CHOOSE a \in InputApps : a.app_label = app_label).models
    ELSE <<>>

\* The links configured under custom_links[app_label], in configured order.
InputLinks(app_label) ==
    LET groups == PRACTET_DASHBOARD_SETTINGS.custom_links.items IN
    IF \E g \in Range(groups) : g.key = app_label
    THEN (CHOOSE g \in Range(groups) : g.key = app_label).links
    ELSE <<>>

\* The place of a menu item in its application's input: the models in the
\* order given, then the custom links.
ItemPlace(app_label, item) ==
    IF "object_name" \in DOMAIN item
    THEN CHOOSE i \in 1..Len(InputModels(app_label)) :
            InputModels(app_label)[i].object_name = item.object_name
    ELSE Len(InputModels(app_label))
            + (CHOOSE i \in 1..Len(InputLinks(app_label)) :
                    /\ InputLinks(app_label)[i].name = item.name
                    /\ InputLinks(app_label)[i].url = item.url)

\* The entries configured under model_submenus[model_str].
ConfiguredSubmenu(model_str) ==
    LET v == PRACTET_DASHBOARD_SETTINGS.model_submenus IN
    IF v.type = "dict" /\ model_str \in DOMAIN v.items THEN v.items[model_str] ELSE <<>>

\* The place of a submenu entry in the submenu as built: "Add New", the
\* model's own link, then the configured entries.
EntryPlace(model, entry) ==
    IF entry = [name |-> AddNew, url |-> model.add_url, order |-> 0] THEN 1
    ELSE IF entry = [name |-> model.name, url |-> model.url, order |-> 0] THEN 2
    ELSE 2 + (CHOOSE i \in 1..Len(ConfiguredSubmenu(model.model_str)) :
                LET c == ConfiguredSubmenu(model.model_str)[i] IN
                IF "model" \in DOMAIN c
                THEN "model" \in DOMAIN entry /\ entry.model = c.model
                ELSE entry = c)

\* C14: in the menu returned, the items of every application and the
\* entries of every submenu are in non-increasing order of "order" (0 when
\* missing), and items of equal order keep their input order: models before
\* the custom links appended to them, and in a submenu "Add New", then the
\* model's own link, then the configured entries.
C14_ItemsAndSubmenusOrdered ==
    MenuReturned =>
        \A a \in 1..Len(result.value) :
            LET app == result.value[a]
                items == app.models
            IN /\ NonIncreasing(items)
               /\ \A i, j \in 1..Len(items) :
                    (i < j /\ OrderOf(items[i]) = OrderOf(items[j])) =>
                        ItemPlace(app.app_label, items[i])
                            < ItemPlace(app.app_label, items[j])
               /\ \A m \in 1..Len(items) :
                    "submenu" \in DOMAIN items[m] =>
                        LET submenu == items[m].submenu IN
                        /\ NonIncreasing(submenu)
                        /\ \A i, j \in 1..Len(submenu) :
                            (i < j /\ OrderOf(submenu[i]) = OrderOf(submenu[j])) =>
                                EntryPlace(items[m], submenu[i])
                                    < EntryPlace(items[m], submenu[j])

\* One returned menu with an application whose model precedes a custom link
\* of the same order, an application whose second model comes first for
\* its higher order, and a submenu where two configured entries come first
\* and a third, of order 0, follows "Add New" and the model's own link.
C14_Witness ==
    /\ MenuReturned
    /\ \E a \in 1..Len(result.value) :
        LET items == result.value[a].models IN
        /\ Len(items) = 2
        /\ "object_name" \in DOMAIN items[1]
        /\ "object_name" \notin DOMAIN items[2]
        /\ OrderOf(items[1]) = OrderOf(items[2])
    /\ \E a \in 1..Len(result.value) :
        LET items == result.value[a].models IN
        /\ Len(items) = 2
        /\ items[1].object_name = Beta
        /\ items[2].object_name = Alpha
        /\ OrderOf(items[1]) > OrderOf(items[2])
        /\ "submenu" \in DOMAIN items[2]
        /\ Len(items[2].submenu) = 5
        /\ OrderOf(items[2].submenu[1]) = 3
        /\ OrderOf(items[2].submenu[2]) = 1
        /\ items[2].submenu[3].name = AddNew
        /\ items[2].submenu[4].name = items[2].name
        /\ items[2].submenu[5].model = Path(apps_a, Zeta)
        /\ OrderOf(items[2].submenu[5]) = 0

(***************************************************************************)
(* Properties of the audit-log formatter, checked under SpecLog.           *)
(***************************************************************************)
LogCalled == call.op = "action_message_to_list" /\ result # Pending

StartsWithBracket ==
    call.action.change_message # "" /\ Head(call.action.tokens) = LBRACK

\* What the message parses to.
Parsed == json_loads(call.action.tokens)

Tags == {"added", "changed", "deleted"}

IsTagged(sub) == sub.type = "dict" /\ DOMAIN sub.items \cap Tags # {}

\* The tag the formatter goes by: added before changed before deleted.
TagOf(sub) ==
    IF "added" \in DOMAIN sub.items THEN "added"
    ELSE IF "changed" \in DOMAIN sub.items THEN "changed"
    ELSE "deleted"

HasNameAndObject(detail) == {"name", "object"} \subseteq DOMAIN detail.items

\* A sub-record is an object; if tagged, the detail of its tag is complete.
WellFormedSub(sub) ==
    /\ sub.type = "dict"
    /\ IsTagged(sub) =>
        LET detail == sub.items[TagOf(sub)] IN
        /\ detail.type = "dict"
        /\ TagOf(sub) = "added" => DOMAIN detail.items = {} \/ HasNameAndObject(detail)
        /\ TagOf(sub) = "changed" =>
                "fields" \in DOMAIN detail.items /\ detail.items["fields"].type = "list"
        /\ TagOf(sub) = "deleted" => HasNameAndObject(detail)

\* "a", "a and b", "a, b and c"
RECURSIVE HumanJoin(_)
HumanJoin(names) ==
    IF Len(names) = 1 THEN names[1]
    ELSE IF Len(names) = 2 THEN names[1] \o " and " \o names[2]
    ELSE names[1] \o ", " \o HumanJoin(Tail(names))

\* The record the claim describes for a tagged, well-formed sub-record.
MatchesSubRecord(record, sub) ==
    LET tag == TagOf(sub)
        detail == sub.items[tag].items
    IN /\ record.type = "dict"
       /\ tag = "added" =>
            /\ record.icon = "plus-circle" /\ record.colour = "success"
            /\ DOMAIN detail = {} => record.msg = "Added."
       /\ tag = "changed" =>
            /\ record.icon = "edit" /\ record.colour = "blue"
            /\ Len(detail["fields"].items) > 0 =>
                 record.msg = "Changed "
                    \o HumanJoin([i \in 1..Len(detail["fields"].items) |->
                                      detail["fields"].items[i].value])
                    \o "."
       /\ tag = "deleted" => record.icon = "trash" /\ record.colour = "danger"

\* C6: action_message_to_list never raises and returns a non-empty list.
C6_LogNeverRaises ==
    LogCalled => result.status = "returned" /\ Len(result.value) > 0

\* C7: every element of the list returned is a display record with msg,
\* icon and colour, the colour one of success, blue and danger.
C7_EveryElementIsRecord ==
    (LogCalled /\ result.status = "returned") =>
        \A i \in 1..Len(result.value) :
            /\ result.value[i].type = "dict"
            /\ {"msg", "icon", "colour"} \subseteq DOMAIN result.value[i]
            /\ result.value[i].colour \in {"success", "blue", "danger"}

\* C8: a message that parses as an array of well-formed sub-records, one
\* of them tagged, gives one record per tagged sub-record, in the array's
\* order, each with the icon, colour and message of its tag.
C8_OneRecordPerSubRecord ==
    (/\ LogCalled
     /\ StartsWithBracket
     /\ Parsed.status = "returned"
     /\ \A i \in 1..Len(Parsed.value.items) : WellFormedSub(Parsed.value.items[i])
     /\ \E i \in 1..Len(Parsed.value.items) : IsTagged(Parsed.value.items[i]))
        => LET tagged == SelectSeq(Parsed.value.items, IsTagged) IN
           /\ result.status = "returned"
           /\ Len(result.value) = Len(tagged)
           /\ \A i \in 1..Len(tagged) : MatchesSubRecord(result.value[i], tagged[i])

\* Two records are returned for a deletion followed by a change of three
\* fields.
C8_Witness ==
    /\ LogCalled
    /\ call.action.tokens =
          Dumps(PyList(<<PyDict("deleted" :> PyDict(NameObject)),
                         PyDict("changed" :>
                             PyDict([fields |-> PyList(<<PyStr("name"), PyStr("email"),
                                                         PyStr("phone")>>)]))>>))
    /\ result.status = "returned"
    /\ Len(result.value) = 2
    /\ result.value[2].msg = "Changed name, email and phone."

\* C9: when parsing makes no record (the message does not start with "[",
\* or parses to an array that is empty or holds only untagged sub-records),
\* the result is one record: the raw text, icon edit, colour blue.
C9_FallbackRecord ==
    (/\ LogCalled
     /\ \/ ~StartsWithBracket
        \/ /\ Parsed.status = "returned"
           /\ \A i \in 1..Len(Parsed.value.items) :
                /\ Parsed.value.items[i].type = "dict"
                /\ ~IsTagged(Parsed.value.items[i]))
        => result = Returned(<<[type |-> "dict", msg |-> call.action.change_message,
                                icon |-> "edit", colour |-> "blue"]>>)

\* The fallback is taken for an array of two untagged sub-records.
C9_Witness ==
    /\ LogCalled
    /\ call.action.change_message = "[{}, {\"other\": \"x\"}]"
    /\ result.status = "returned"
    /\ Len(result.value) = 1
    /\ result.value[1].msg = call.action.change_message

(***************************************************************************)
(* Properties of the change-form template selector, checked under SpecForm.*)
(***************************************************************************)
TemplateCalled == call.op = "get_changeform_template" /\ result # Pending

\* C10: a model admin with no fieldsets and no inlines gets the single
\* template, whatever changeform_format and changeform_format_overrides say.
C10_SingleWithoutSections ==
    (/\ TemplateCalled
     /\ call.adminform.fieldsets = <<>>
     /\ call.adminform.inlines = <<>>)
        => result.value = CHANGEFORM_TEMPLATES[single]

\* The single template is returned although this very model is overridden
\* to carousel and the global format is vertical_tabs.
C10_Witness ==
    /\ TemplateCalled
    /\ call.adminform.fieldsets = <<>>
    /\ call.adminform.inlines = <<>>
    /\ FormModelName(call.adminform) = lower(Path(apps_a, Alpha))
    /\ PRACTET_DASHBOARD_SETTINGS.changeform_format = PyStr(vertical_tabs)
    /\ PRACTET_DASHBOARD_SETTINGS.changeform_format_overrides
            = PyDict(lower(Path(apps_a, Alpha)) :> carousel)
    /\ result.value = "practet_dashboard/includes/single.html"

ClassCalled == call.op = "get_changeform_template_class" /\ result # Pending

HasSections(adminform) == adminform.fieldsets # <<>> \/ adminform.inlines # <<>>

\* The five known layouts and the template of each.
KnownTemplates ==
    (single :> "practet_dashboard/includes/single.html")
        @@ (horizontal_tabs :> "practet_dashboard/includes/horizontal_tabs.html")
        @@ (vertical_tabs :> "practet_dashboard/includes/vertical_tabs.html")
        @@ (collapsible :> "practet_dashboard/includes/collapsible.html")
        @@ (carousel :> "practet_dashboard/includes/carousel.html")

\* The layout the resolved settings name for the model: its override when
\* there is one, else the global format; horizontal_tabs when that is not
\* a known layout.
ExpectedLayout(user_config, adminform) ==
    LET resolved == get_settings(user_config)
        key == lower(Path(adminform.app_label, adminform.model_name))
        format == IF key \in DOMAIN resolved.changeform_format_overrides
                  THEN resolved.changeform_format_overrides[key]
                  ELSE resolved.changeform_format
    IN IF format \in DOMAIN KnownTemplates THEN format ELSE horizontal_tabs

\* C11: for a model admin with fieldsets or inlines, the template returned
\* is the template of the model's override, else of the global format, and
\* the horizontal_tabs template when that format is not one of the five
\* known; it is always one of the five templates and is the template of the
\* layout name get_changeform_template_class returns.
C11_FormatResolution ==
    /\ (TemplateCalled /\ HasSections(call.adminform)) =>
         /\ result.value =
                KnownTemplates[ExpectedLayout(PRACTET_DASHBOARD_SETTINGS, call.adminform)]
         /\ result.value \in {KnownTemplates[f] : f \in DOMAIN KnownTemplates}
         /\ result.value =
                KnownTemplates[get_changeform_template_class(PRACTET_DASHBOARD_SETTINGS,
                                                             call.adminform)]
    /\ (ClassCalled /\ HasSections(call.adminform)) =>
         result.value = ExpectedLayout(PRACTET_DASHBOARD_SETTINGS, call.adminform)

\* A model with fieldsets whose override, written in upper case under a
\* mixed-case key, wins over a global format that is not a known layout.
C11_Witness ==
    /\ TemplateCalled
    /\ call.adminform.fieldsets # <<>>
    /\ FormModelName(call.adminform) = lower(Path(apps_a, Alpha))
    /\ PRACTET_DASHBOARD_SETTINGS.changeform_format = PyStr(grid)
    /\ PRACTET_DASHBOARD_SETTINGS.changeform_format_overrides
            = PyDict(Path(apps_a, Alpha) :> upper(vertical_tabs))
    /\ result.value = "practet_dashboard/includes/vertical_tabs.html"

(***************************************************************************)
(* Properties of get_settings, checked under SpecSettings.                 *)
(***************************************************************************)
SettingsCalled == call.op = "get_settings" /\ result # Pending

\* y is x with every upper-case letter replaced by its lower-case letter.
IsLowerOf(y, x) ==
    /\ Len(y) = Len(x)
    /\ \A j \in 1..Len(x) :
        \/ x[j] \notin Range(UpperCase) /\ y[j] = x[j]
        \/ \E i \in 1..Len(UpperCase) : x[j] = UpperCase[i] /\ y[j] = LowerCase[i]

\* C12: in the settings returned, hide_apps and hide_models are sequences
\* of lower-case strings; a single string given by the user becomes the
\* one-element sequence of that string lower-cased, and a sequence is
\* lower-cased element by element, its length and order kept.
C12_HideListsNormalised ==
    SettingsCalled =>
        \A k \in {"hide_apps", "hide_models"} :
            LET given == PRACTET_DASHBOARD_SETTINGS[k]
                out == result.value[k]
            IN /\ DOMAIN out = 1..Len(out)
               /\ \A i \in 1..Len(out) :
                    /\ DOMAIN out[i] = 1..Len(out[i])
                    /\ \A j \in 1..Len(out[i]) : out[i][j] \notin Range(UpperCase)
               /\ given.type = "str" =>
                    Len(out) = 1 /\ IsLowerOf(out[1], given.value)
               /\ given.type = "list" =>
                    /\ Len(out) = Len(given.items)
                    /\ \A i \in 1..Len(out) : IsLowerOf(out[i], given.items[i])

\* hide_apps given as the string "Shop" and hide_models as a two-element
\* list with an upper-case entry.
C12_Witness ==
    /\ SettingsCalled
    /\ PRACTET_DASHBOARD_SETTINGS.hide_apps = PyStr(Shop)
    /\ result.value.hide_apps = << <<"s", "h", "o", "p">> >>
    /\ PRACTET_DASHBOARD_SETTINGS.hide_models = PyList(<<upper(apps_b), Shop>>)
    /\ result.value.hide_models = <<apps_b, <<"s", "h", "o", "p">> >>

(***************************************************************************)
(* Properties of the pager, checked under SpecPager.                       *)
(***************************************************************************)
PagerCalled == call.op = "dashub_paginator_number" /\ result # Pending

\* The number of fragments of one kind in the markup returned.
CountOf(kind) ==
    Cardinality({k \in 1..Len(result.value) : result.value[k].li = kind})

SlotIsPage(page) == call.i.type = "int" /\ call.i.value = page

\* C15: with current page p of n pages, slot i yields a Previous control
\* exactly when i = 1 and a Next control exactly when i = n; Previous is
\* disabled, with link "#", exactly when p = 1 and Next exactly when p = n;
\* and the slot yields exactly one of the active entry (exactly when i = p),
\* the ellipsis entry, or a link to page i.
C15_PagerSlot ==
    PagerCalled =>
        LET html == result.value
            p == call.change_list.page_num
            n == call.change_list.paginator.num_pages
        IN /\ CountOf("previous") = IF SlotIsPage(1) THEN 1 ELSE 0
           /\ CountOf("next") = IF SlotIsPage(n) THEN 1 ELSE 0
           /\ \A k \in 1..Len(html) :
                /\ html[k].li = "previous" =>
                        /\ html[k].disabled = "disabled" <=> p = 1
                        /\ html[k].href = "#" <=> p = 1
                /\ html[k].li = "next" =>
                        /\ html[k].disabled = "disabled" <=> p = n
                        /\ html[k].href = "#" <=> p = n
                /\ html[k].li = "active" => html[k].num = p
                /\ html[k].li = "page" =>
                        /\ html[k].num = call.i.value
                        /\ html[k].href = "?p=" \o ToString(call.i.value)
           /\ CountOf("active") + CountOf("ellipsis") + CountOf("page") = 1
           /\ CountOf("active") = 1 <=> SlotIsPage(p)
           /\ CountOf("ellipsis") = 1 <=> call.i.type = "str"

\* The only slot of a one-page list: Previous and Next, both disabled,
\* around the active entry.
C15_Witness ==
    /\ PagerCalled
    /\ call.change_list.paginator.num_pages = 1
    /\ call.i = PyInt(1)
    /\ Len(result.value) = 3
    /\ result.value[1] = [li |-> "previous", href |-> "#", disabled |-> "disabled"]
    /\ result.value[2] = [li |-> "active", num |-> 1]
    /\ result.value[3] = [li |-> "next", href |-> "#", disabled |-> "disabled"]

=============================================================================
